---- MODULE Spec2Model ----
(***************************************************************************)
(* RedGifsServer: the credential lifecycle of src/main.go (the final      *)
(* revision, lines 212-426).  main loads and validates the configuration, *)
(* starts the weekly cron task and the upstream client, then serves       *)
(* lookups.  Each cron tick runs attemptAccessTokenRefresh on a goroutine *)
(* of its own; each request runs handleGifLookup on a goroutine of its    *)
(* own.  The two meet at credential (a sync.RWMutex and a string).        *)
(*                                                                         *)
(* A Go string is two words (data pointer, length); an assignment or a    *)
(* read of credential.accessToken is modelled as two steps, one per word, *)
(* so that exclusion is what keeps a read whole.                          *)
(***************************************************************************)
EXTENDS Integers, Sequences, FiniteSets, TLC

\* ------------------------------------------------------------ bounds
\* goroutines started in one run of the process: one per cron tick fired and
\* one per request accepted
MaxGoroutines == 2

\* the goroutines a cron tick can start on and a request can be served on:
\* up to two refresh cycles overlap, up to two lookups overlap
Cyclers == {1, 2}
Handlers == {1, 2}

\* ------------------------------------------------------------ values
\* the zero value of a Go string
Empty == ""
\* tokens the upstream can issue
Tokens == {"t1", "t2"}
\* stream URLs the upstream can resolve to
Urls == {"u1", "u2"}
\* ids a client can ask for
GifIds == {"g1"}
\* client addresses (c.RealIP()) and generated probe addresses
Ips == {"ip1"}

ServerUserAgent == "app.stellarreddit.RedGifsServer"

\* backoff := [5]time.Duration{5, 10, 30, 60, 120}, in seconds
backoff == <<5, 10, 30, 60, 120>>
\* time.Sleep(5 * time.Second) after an issuance
SettleDelay == 5

\* RedGifsConfig: every field is empty or set
Configs ==
    [ListenPort : {Empty, ":8080"},
     RedGifsClientId : {Empty, "id"},
     RedGifsClientSecret : {Empty, "secret"},
     RedGifsTestId : {Empty, "testgif"},
     StellarClientUserAgent : {Empty, "stellar-ua"}]

ZeroConfig ==
    [ListenPort |-> Empty, RedGifsClientId |-> Empty, RedGifsClientSecret |-> Empty,
     RedGifsTestId |-> Empty, StellarClientUserAgent |-> Empty]

\* a string as the two words the runtime stores
Str(s) == [ptr |-> s, len |-> s]
Whole(v) == v.ptr = v.len

\* error values of the upstream client, as errors.Is sees them
ErrNil == "nil"
ErrNotFound == "ErrNotFound"
ErrWrappedNotFound == "wrapped(ErrNotFound)"
ErrOther == "other"
Errors == {ErrNotFound, ErrWrappedNotFound, ErrOther}

\* errors.Is(err, RedGifsWrapper.ErrNotFound): the error or one it wraps
ErrorsIsNotFound(err) == err \in {ErrNotFound, ErrWrappedNotFound}

\* an upstream call in flight: the method, its arguments, and the value of the
\* global client it was made on
NoCall == [op |-> "none"]
IssueCall(cl) == [op |-> "RequestNewAccessToken", client |-> cl]
LookupCall(cl, ip, agent, id, token) ==
    [op |-> "LookupStreamURL", client |-> cl, ip |-> ip, agent |-> agent, id |-> id,
     token |-> token]

NoResponse == [status |-> 0]
\* c.String(code, text)
StringResponse(code, text) == [status |-> code, kind |-> "text", body |-> text]
\* c.JSON(code, RedGifStreamUrlResponse{Url: url})
JSONResponse(code, url) == [status |-> code, kind |-> "json", streamUrl |-> url]

VARIABLES
    mainPc,       \* where main is
    tempConfig,   \* main's local
    config,       \* the global config
    cronRunning,  \* c.Start() has run
    client,       \* the global client: "zero" or "ready"
    accessToken,  \* credential.accessToken, as two words
    rwWriter,     \* the goroutine holding credential.accessTokenMutex for writing, or 0
    rwReaders,    \* the goroutines holding it for reading
    cycle,        \* per cron goroutine: the frame of attemptAccessTokenRefresh
    lookup,       \* per request goroutine: the frame of handleGifLookup
    ticks,        \* cron ticks fired so far
    requests,     \* requests accepted so far
    validated,    \* history: tokens that passed a probe made with config.RedGifsTestId
    written,      \* history: tokens whose assignment to the store completed
    lastWrite     \* history: the token of the cycle that completed a store last

\* The fields of a cycle frame beyond the locals (i, accessToken) are history:
\* issued, issuedOk, probes count the upstream calls of the cycle, failed the
\* attempts whose issuance or probe returned an error, writes the completed
\* assignments to the store; outcome is how the function returned ("failure":
\* the loop ran out, "success": break), prior the outcome of the cycle that ran
\* before on this goroutine slot; base is the store as the other goroutines
\* alone have made it since the cycle began.

vars == <<mainPc, tempConfig, config, cronRunning, client, accessToken, rwWriter,
          rwReaders, cycle, lookup, ticks, requests, validated, written, lastWrite>>

mainVars == <<mainPc, tempConfig, config, cronRunning, client>>
lockVars == <<rwWriter, rwReaders>>
histVars == <<validated, written, lastWrite>>

\* ------------------------------------------------------------ frames
IdleCycle ==
    [pc |-> "idle", i |-> 0, accessToken |-> Empty, call |-> NoCall, sleeping |-> 0,
     issued |-> 0, issuedOk |-> 0, probes |-> 0, failed |-> 0,
     writes |-> 0, outcome |-> "none", prior |-> "none", base |-> Str(Empty)]

IdleLookup ==
    [pc |-> "idle", gifId |-> Empty, ip |-> Empty, accessToken |-> Str(Empty),
     call |-> NoCall, calls |-> 0, result |-> [url |-> Empty, err |-> ErrNil],
     response |-> NoResponse]

Init ==
    /\ mainPc = "loadConfig"
    /\ tempConfig = ZeroConfig
    /\ config = ZeroConfig
    /\ cronRunning = FALSE
    /\ client = "zero"
    /\ accessToken = Str(Empty)
    /\ rwWriter = 0
    /\ rwReaders = {}
    /\ cycle = [c \in Cyclers |-> IdleCycle]
    /\ lookup = [h \in Handlers |-> IdleLookup]
    /\ ticks = 0
    /\ requests = 0
    /\ validated = {}
    /\ written = {}
    /\ lastWrite = Empty

\* validateConfig as it was before the StellarClientUserAgent test was added
validateConfig_NoUserAgent(cfg) ==
    (IF cfg.ListenPort = Empty THEN <<"ListenPort">> ELSE <<>>)
    \o (IF cfg.RedGifsClientId = Empty THEN <<"RedGifsClientId">> ELSE <<>>)
    \o (IF cfg.RedGifsClientSecret = Empty THEN <<"RedGifsClientSecret">> ELSE <<>>)
    \o (IF cfg.RedGifsTestId = Empty THEN <<"RedGifsTestId">> ELSE <<>>)

\* ------------------------------------------------------------ main
\* validateConfig: the names of the empty fields, in the order checked;
\* the result is nil iff there are none
validateConfig(cfg) ==
    (IF cfg.ListenPort = Empty THEN <<"ListenPort">> ELSE <<>>)
    \o (IF cfg.RedGifsClientId = Empty THEN <<"RedGifsClientId">> ELSE <<>>)
    \o (IF cfg.RedGifsClientSecret = Empty THEN <<"RedGifsClientSecret">> ELSE <<>>)
    \o (IF cfg.RedGifsTestId = Empty THEN <<"RedGifsTestId">> ELSE <<>>)
    \o (IF cfg.StellarClientUserAgent = Empty THEN <<"StellarClientUserAgent">> ELSE <<>>)

\* tempConfig, err := loadConfig("."); if err != nil { panic }
MainLoadConfig ==
    /\ mainPc = "loadConfig"
    /\ \/ /\ mainPc' = "panicked"
          /\ tempConfig' = ZeroConfig
       \/ \E cfg \in Configs :
            /\ tempConfig' = cfg
            /\ mainPc' = "validateConfig"
    /\ UNCHANGED <<config, cronRunning, client, accessToken, lockVars, cycle, lookup,
                   ticks, requests, histVars>>

\* err = validateConfig(tempConfig); if err != nil { panic }; config = tempConfig
MainValidateConfig ==
    /\ mainPc = "validateConfig"
    /\ IF validateConfig(tempConfig) # <<>>
         THEN /\ mainPc' = "panicked"
              /\ config' = config
         ELSE /\ mainPc' = "setupAccessTokenRefreshTask"
              /\ config' = tempConfig
    /\ UNCHANGED <<tempConfig, cronRunning, client, accessToken, lockVars, cycle, lookup,
                   ticks, requests, histVars>>

\* setupAccessTokenRefreshTask as it would be if it also ran the routine once itself
setupAccessTokenRefreshTask_RunsOnce ==
    /\ mainPc = "setupAccessTokenRefreshTask"
    /\ cronRunning' = TRUE
    /\ mainPc' = "setupRedGifsWrapperClient"
    /\ cycle' = [cycle EXCEPT ![1] =
                    [IdleCycle EXCEPT !.pc = "request", !.i = 1, !.issued = 1,
                                      !.call = IssueCall(client),
                                      !.outcome = "running",
                                      !.prior = cycle[1].outcome,
                                      !.base = accessToken]]
    /\ UNCHANGED <<tempConfig, config, client, accessToken, lockVars, lookup,
                   ticks, requests, histVars>>

\* setupAccessTokenRefreshTask(): cron.New(), AddFunc("@weekly", ...), c.Start()
setupAccessTokenRefreshTask ==
    /\ mainPc = "setupAccessTokenRefreshTask"
    /\ cronRunning' = TRUE
    /\ mainPc' = "setupRedGifsWrapperClient"
    /\ UNCHANGED <<tempConfig, config, client, accessToken, lockVars, cycle, lookup,
                   ticks, requests, histVars>>

\* setupRedGifsWrapperClient(config): client = RedGifsWrapper.NewClient(...)
setupRedGifsWrapperClient ==
    /\ mainPc = "setupRedGifsWrapperClient"
    /\ client' = "ready"
    /\ mainPc' = "serving"
    /\ UNCHANGED <<tempConfig, config, cronRunning, accessToken, lockVars, cycle, lookup,
                   ticks, requests, histVars>>

\* ------------------------------------------------------------ attemptAccessTokenRefresh
\* the head of `for _, v := range backoff` reached with index idx (1-based):
\* past the array the function returns, else the issuance request is sent
LoopHead(f, idx) ==
    IF idx > Len(backoff)
      THEN [f EXCEPT !.pc = "idle", !.i = idx, !.outcome = "failure"]
      ELSE [f EXCEPT !.pc = "request", !.i = idx, !.call = IssueCall(client),
                     !.issued = @ + 1]

\* the other goroutines' shadow of the store follows a write made by c
Shadow(c, field, value) ==
    [d \in Cyclers |->
        IF d = c THEN cycle[d]
        ELSE [cycle[d] EXCEPT !.base = [@ EXCEPT ![field] = value]]]

\* Tick as it would be if a failed cycle cancelled the schedule
Tick_StopsAfterFailure(c) ==
    /\ cronRunning
    /\ ticks + requests < MaxGoroutines
    /\ cycle[c].pc = "idle"
    /\ \A d \in Cyclers : cycle[d].outcome # "failure"
    /\ \A d \in Cyclers : d < c => cycle[d].pc # "idle"
    /\ ticks' = ticks + 1
    /\ cycle' = [cycle EXCEPT ![c] =
                    LoopHead([IdleCycle EXCEPT !.outcome = "running",
                                               !.prior = cycle[c].outcome,
                                               !.base = accessToken], 1)]
    /\ UNCHANGED <<mainVars, accessToken, lockVars, lookup, requests, histVars>>

\* the cron entry fires: the job runs attemptAccessTokenRefresh on a new goroutine
Tick(c) ==
    /\ cronRunning
    /\ ticks + requests < MaxGoroutines
    /\ cycle[c].pc = "idle"
    /\ \A d \in Cyclers : d < c => cycle[d].pc # "idle"
    /\ ticks' = ticks + 1
    /\ cycle' = [cycle EXCEPT ![c] =
                    LoopHead([IdleCycle EXCEPT !.outcome = "running",
                                               !.prior = cycle[c].outcome,
                                               !.base = accessToken], 1)]
    /\ UNCHANGED <<mainVars, accessToken, lockVars, lookup, requests, histVars>>

\* RequestReturn as it would be if a failed issuance always slept the first stage
RequestReturn_FirstStageDelay(c) ==
    /\ cycle[c].pc = "request"
    /\ \/ /\ cycle' = [cycle EXCEPT ![c] =
                 [@ EXCEPT !.pc = "backoff", !.call = NoCall, !.accessToken = Empty,
                           !.failed = @ + 1, !.sleeping = backoff[1]]]
       \/ \E t \in Tokens :
             cycle' = [cycle EXCEPT ![c] =
                 [@ EXCEPT !.pc = "settle", !.call = NoCall, !.accessToken = t,
                           !.issuedOk = @ + 1, !.sleeping = SettleDelay]]
    /\ UNCHANGED <<mainVars, accessToken, lockVars, lookup, ticks, requests, histVars>>

\* RequestReturn as it would be without the continue after a failed issuance
RequestReturn_ProbesAnyway(c) ==
    /\ cycle[c].pc = "request"
    /\ \/ /\ cycle' = [cycle EXCEPT ![c] =
                 [@ EXCEPT !.pc = "settle", !.call = NoCall, !.accessToken = Empty,
                           !.failed = @ + 1, !.sleeping = SettleDelay]]
       \/ \E t \in Tokens :
             cycle' = [cycle EXCEPT ![c] =
                 [@ EXCEPT !.pc = "settle", !.call = NoCall, !.accessToken = t,
                           !.issuedOk = @ + 1, !.sleeping = SettleDelay]]
    /\ UNCHANGED <<mainVars, accessToken, lockVars, lookup, ticks, requests, histVars>>

\* accessToken, err := client.RequestNewAccessToken() returns;
\* err != nil: time.Sleep(v * time.Second) begins;
\* otherwise time.Sleep(5 * time.Second) begins
RequestReturn(c) ==
    /\ cycle[c].pc = "request"
    /\ \/ /\ cycle' = [cycle EXCEPT ![c] =
                 [@ EXCEPT !.pc = "backoff", !.call = NoCall, !.accessToken = Empty,
                           !.failed = @ + 1, !.sleeping = backoff[cycle[c].i]]]
       \/ \E t \in Tokens :
             cycle' = [cycle EXCEPT ![c] =
                 [@ EXCEPT !.pc = "settle", !.call = NoCall, !.accessToken = t,
                           !.issuedOk = @ + 1, !.sleeping = SettleDelay]]
    /\ UNCHANGED <<mainVars, accessToken, lockVars, lookup, ticks, requests, histVars>>

\* SettleDone as it would be if the probe were made with the cached credential
SettleDone_ProbesStoredToken(c) ==
    /\ cycle[c].pc = "settle"
    /\ \E randomIp \in Ips :
         cycle' = [cycle EXCEPT ![c] =
             [@ EXCEPT !.pc = "probe", !.sleeping = 0, !.probes = @ + 1,
                       !.call = LookupCall(client, randomIp, ServerUserAgent,
                                           config.RedGifsTestId, accessToken.ptr)]]
    /\ UNCHANGED <<mainVars, accessToken, lockVars, lookup, ticks, requests, histVars>>

\* the settle sleep ends; randomIp := generateRandomIPv4Address();
\* client.LookupStreamURL(randomIp, ServerUserAgent, config.RedGifsTestId, accessToken) is sent
SettleDone(c) ==
    /\ cycle[c].pc = "settle"
    /\ \E randomIp \in Ips :
         cycle' = [cycle EXCEPT ![c] =
             [@ EXCEPT !.pc = "probe", !.sleeping = 0, !.probes = @ + 1,
                       !.call = LookupCall(client, randomIp, ServerUserAgent,
                                           config.RedGifsTestId, cycle[c].accessToken)]]
    /\ UNCHANGED <<mainVars, accessToken, lockVars, lookup, ticks, requests, histVars>>

\* ProbeReturn as it would be if the probe's error were not checked
ProbeReturn_IgnoresError(c) ==
    /\ cycle[c].pc = "probe"
    /\ \/ /\ \E err \in Errors :
               cycle' = [cycle EXCEPT ![c] =
                   [@ EXCEPT !.pc = "lock", !.call = NoCall, !.failed = @ + 1]]
          /\ validated' = validated
       \/ /\ cycle' = [cycle EXCEPT ![c] = [@ EXCEPT !.pc = "lock", !.call = NoCall]]
          /\ validated' =
               IF cycle[c].call.id = config.RedGifsTestId
                 THEN validated \cup {cycle[c].call.token}
                 ELSE validated
    /\ UNCHANGED <<mainVars, accessToken, lockVars, lookup, ticks, requests, written, lastWrite>>

\* the probe returns; err != nil: time.Sleep(v * time.Second) begins;
\* otherwise the goroutine goes on to credential.accessTokenMutex.Lock()
ProbeReturn(c) ==
    /\ cycle[c].pc = "probe"
    /\ \/ /\ \E err \in Errors :
               cycle' = [cycle EXCEPT ![c] =
                   [@ EXCEPT !.pc = "backoff", !.call = NoCall, !.accessToken = Empty,
                             !.failed = @ + 1, !.sleeping = backoff[cycle[c].i]]]
          /\ validated' = validated
       \/ /\ cycle' = [cycle EXCEPT ![c] = [@ EXCEPT !.pc = "lock", !.call = NoCall]]
          /\ validated' =
               IF cycle[c].call.id = config.RedGifsTestId
                 THEN validated \cup {cycle[c].call.token}
                 ELSE validated
    /\ UNCHANGED <<mainVars, accessToken, lockVars, lookup, ticks, requests, written, lastWrite>>

\* BackoffDone as it would be with break in place of continue
BackoffDone_Breaks(c) ==
    /\ cycle[c].pc = "backoff"
    /\ cycle' = [cycle EXCEPT ![c] =
                    [@ EXCEPT !.pc = "idle", !.sleeping = 0, !.outcome = "failure"]]
    /\ UNCHANGED <<mainVars, accessToken, lockVars, lookup, ticks, requests, histVars>>

\* BackoffDone as it would be if the last failed attempt reset the credential
BackoffDone_ClearsStore(c) ==
    /\ cycle[c].pc = "backoff"
    /\ cycle' = [cycle EXCEPT ![c] =
                    LoopHead([cycle[c] EXCEPT !.sleeping = 0], cycle[c].i + 1)]
    /\ accessToken' = IF cycle[c].i = Len(backoff) THEN Str(Empty) ELSE accessToken
    /\ UNCHANGED <<mainVars, lockVars, lookup, ticks, requests, histVars>>

\* BackoffDone as it would be if continue retried the same stage
BackoffDone_SameStage(c) ==
    /\ cycle[c].pc = "backoff"
    /\ cycle' = [cycle EXCEPT ![c] =
                    LoopHead([cycle[c] EXCEPT !.sleeping = 0], cycle[c].i)]
    /\ UNCHANGED <<mainVars, accessToken, lockVars, lookup, ticks, requests, histVars>>

\* the backoff sleep ends; continue
BackoffDone(c) ==
    /\ cycle[c].pc = "backoff"
    /\ cycle' = [cycle EXCEPT ![c] =
                    LoopHead([cycle[c] EXCEPT !.sleeping = 0], cycle[c].i + 1)]
    /\ UNCHANGED <<mainVars, accessToken, lockVars, lookup, ticks, requests, histVars>>

\* Lock as it would be if it excluded writers only
Lock_IgnoresReaders(c) ==
    /\ cycle[c].pc = "lock"
    /\ rwWriter = 0
    /\ rwWriter' = c
    /\ cycle' = [cycle EXCEPT ![c] = [@ EXCEPT !.pc = "store"]]
    /\ UNCHANGED <<mainVars, accessToken, rwReaders, lookup, ticks, requests, histVars>>

\* Lock as it would be if it excluded readers only
Lock_IgnoresWriters(c) ==
    /\ cycle[c].pc = "lock"
    /\ rwReaders = {}
    /\ rwWriter' = c
    /\ cycle' = [cycle EXCEPT ![c] = [@ EXCEPT !.pc = "store"]]
    /\ UNCHANGED <<mainVars, accessToken, rwReaders, lookup, ticks, requests, histVars>>

\* credential.accessTokenMutex.Lock(): returns once no goroutine holds the mutex
Lock(c) ==
    /\ cycle[c].pc = "lock"
    /\ rwWriter = 0
    /\ rwReaders = {}
    /\ rwWriter' = c
    /\ cycle' = [cycle EXCEPT ![c] = [@ EXCEPT !.pc = "store"]]
    /\ UNCHANGED <<mainVars, accessToken, rwReaders, lookup, ticks, requests, histVars>>

\* credential.accessToken = accessToken, first word
StorePtr(c) ==
    /\ cycle[c].pc = "store"
    /\ accessToken' = [accessToken EXCEPT !.ptr = cycle[c].accessToken]
    /\ cycle' = [Shadow(c, "ptr", cycle[c].accessToken) EXCEPT ![c] =
                    [@ EXCEPT !.pc = "storeLen"]]
    /\ UNCHANGED <<mainVars, lockVars, lookup, ticks, requests, histVars>>

\* credential.accessToken = accessToken, second word
StoreLen(c) ==
    /\ cycle[c].pc = "storeLen"
    /\ accessToken' = [accessToken EXCEPT !.len = cycle[c].accessToken]
    /\ cycle' = [Shadow(c, "len", cycle[c].accessToken) EXCEPT ![c] =
                    [@ EXCEPT !.pc = "unlock", !.writes = @ + 1]]
    /\ written' = written \cup {cycle[c].accessToken}
    /\ lastWrite' = cycle[c].accessToken
    /\ UNCHANGED <<mainVars, lockVars, lookup, ticks, requests, validated>>

\* Unlock as it would be without the break that follows it
Unlock_NoBreak(c) ==
    /\ cycle[c].pc = "unlock"
    /\ rwWriter' = IF rwWriter = c THEN 0 ELSE rwWriter
    /\ cycle' = [cycle EXCEPT ![c] =
                    LoopHead([cycle[c] EXCEPT !.accessToken = Empty], cycle[c].i + 1)]
    /\ UNCHANGED <<mainVars, accessToken, rwReaders, lookup, ticks, requests, histVars>>

\* credential.accessTokenMutex.Unlock(); break
Unlock(c) ==
    /\ cycle[c].pc = "unlock"
    /\ rwWriter' = IF rwWriter = c THEN 0 ELSE rwWriter
    /\ cycle' = [cycle EXCEPT ![c] =
                    [@ EXCEPT !.pc = "idle", !.accessToken = Empty, !.outcome = "success"]]
    /\ UNCHANGED <<mainVars, accessToken, rwReaders, lookup, ticks, requests, histVars>>

\* ------------------------------------------------------------ handleGifLookup
\* the server hands a request to a new goroutine; gifId := c.Param("id")
Request(h) ==
    /\ mainPc = "serving"
    /\ ticks + requests < MaxGoroutines
    /\ lookup[h].pc = "idle"
    /\ \A g \in Handlers : g < h => lookup[g].pc # "idle"
    /\ requests' = requests + 1
    /\ \E id \in GifIds, ip \in Ips :
         lookup' = [lookup EXCEPT ![h] =
                       [IdleLookup EXCEPT !.pc = "rlock", !.gifId = id, !.ip = ip]]
    /\ UNCHANGED <<mainVars, accessToken, lockVars, cycle, ticks, histVars>>

\* RLock as it would be if it did not wait for a writer
RLock_NoWait(h) ==
    /\ lookup[h].pc = "rlock"
    /\ rwReaders' = rwReaders \cup {h}
    /\ lookup' = [lookup EXCEPT ![h] = [@ EXCEPT !.pc = "load"]]
    /\ UNCHANGED <<mainVars, accessToken, rwWriter, cycle, ticks, requests, histVars>>

\* credential.accessTokenMutex.RLock(): returns once no writer holds the mutex
RLock(h) ==
    /\ lookup[h].pc = "rlock"
    /\ rwWriter = 0
    /\ rwReaders' = rwReaders \cup {h}
    /\ lookup' = [lookup EXCEPT ![h] = [@ EXCEPT !.pc = "load"]]
    /\ UNCHANGED <<mainVars, accessToken, rwWriter, cycle, ticks, requests, histVars>>

\* accessToken := credential.accessToken, first word
LoadPtr(h) ==
    /\ lookup[h].pc = "load"
    /\ lookup' = [lookup EXCEPT ![h] =
                     [@ EXCEPT !.pc = "loadLen", !.accessToken.ptr = accessToken.ptr]]
    /\ UNCHANGED <<mainVars, accessToken, lockVars, cycle, ticks, requests, histVars>>

\* accessToken := credential.accessToken, second word
LoadLen(h) ==
    /\ lookup[h].pc = "loadLen"
    /\ lookup' = [lookup EXCEPT ![h] =
                     [@ EXCEPT !.pc = "runlock", !.accessToken.len = accessToken.len]]
    /\ UNCHANGED <<mainVars, accessToken, lockVars, cycle, ticks, requests, histVars>>

\* RUnlock as it would be if the release were deferred to the handler's return
RUnlock_Deferred(h) ==
    /\ lookup[h].pc = "runlock"
    /\ lookup' = [lookup EXCEPT ![h] =
                     [@ EXCEPT !.pc = "call", !.calls = @ + 1,
                               !.call = LookupCall(client, lookup[h].ip,
                                                   config.StellarClientUserAgent,
                                                   lookup[h].gifId, lookup[h].accessToken)]]
    /\ UNCHANGED <<mainVars, accessToken, lockVars, cycle, ticks, requests, histVars>>

\* credential.accessTokenMutex.RUnlock();
\* client.LookupStreamURL(c.RealIP(), config.StellarClientUserAgent, gifId, accessToken) is sent
RUnlock(h) ==
    /\ lookup[h].pc = "runlock"
    /\ rwReaders' = rwReaders \ {h}
    /\ lookup' = [lookup EXCEPT ![h] =
                     [@ EXCEPT !.pc = "call", !.calls = @ + 1,
                               !.call = LookupCall(client, lookup[h].ip,
                                                   config.StellarClientUserAgent,
                                                   lookup[h].gifId, lookup[h].accessToken)]]
    /\ UNCHANGED <<mainVars, accessToken, rwWriter, cycle, ticks, requests, histVars>>

\* Respond as it would be with the err != nil test first
Respond_ErrFirst(streamUrl, err) ==
    IF err # ErrNil
      THEN StringResponse(500, "Something went wrong requesting the gif.")
    ELSE IF ErrorsIsNotFound(err)
      THEN StringResponse(404, "Could not find the stream url for the gif.")
    ELSE JSONResponse(200, streamUrl)

\* the if / else if / else of handleGifLookup on (streamUrl, err)
Respond(streamUrl, err) ==
    IF ErrorsIsNotFound(err)
      THEN StringResponse(404, "Could not find the stream url for the gif.")
    ELSE IF err # ErrNil
      THEN StringResponse(500, "Something went wrong requesting the gif.")
    ELSE JSONResponse(200, streamUrl)

\* what client.LookupStreamURL can return: a URL and no error, or an error
LookupResults ==
    [url : Urls, err : {ErrNil}] \cup [url : {Empty}, err : Errors]

\* LookupReturn as it would be if an upstream failure dropped the cached token
LookupReturn_Invalidates(h) ==
    /\ lookup[h].pc = "call"
    /\ \E r \in LookupResults :
         /\ lookup' = [lookup EXCEPT ![h] =
                          [@ EXCEPT !.pc = "idle", !.call = NoCall, !.result = r,
                                    !.response = Respond(r.url, r.err)]]
         /\ accessToken' = IF r.err = ErrOther THEN Str(Empty) ELSE accessToken
    /\ UNCHANGED <<mainVars, lockVars, cycle, ticks, requests, histVars>>

\* LookupReturn as it would be if a failed call were retried with a fresh read
LookupReturn_RetriesOnError(h) ==
    /\ lookup[h].pc = "call"
    /\ \E r \in LookupResults :
         lookup' = [lookup EXCEPT ![h] =
                       IF r.err = ErrOther /\ lookup[h].calls < 2
                         THEN [@ EXCEPT !.pc = "rlock", !.call = NoCall]
                         ELSE [@ EXCEPT !.pc = "idle", !.call = NoCall, !.result = r,
                                        !.response = Respond(r.url, r.err)]]
    /\ UNCHANGED <<mainVars, accessToken, lockVars, cycle, ticks, requests, histVars>>

\* streamUrl, err := client.LookupStreamURL(...) returns; the response is written
LookupReturn(h) ==
    /\ lookup[h].pc = "call"
    /\ \E r \in LookupResults :
         lookup' = [lookup EXCEPT ![h] =
                       [@ EXCEPT !.pc = "idle", !.call = NoCall, !.result = r,
                                 !.response = Respond(r.url, r.err)]]
    /\ UNCHANGED <<mainVars, accessToken, lockVars, cycle, ticks, requests, histVars>>

\* ------------------------------------------------------------ specification
Next ==
    \/ MainLoadConfig
    \/ MainValidateConfig
    \/ setupAccessTokenRefreshTask
    \/ setupRedGifsWrapperClient
    \/ \E c \in Cyclers : Tick(c)
    \/ \E c \in Cyclers : RequestReturn(c)
    \/ \E c \in Cyclers : SettleDone(c)
    \/ \E c \in Cyclers : ProbeReturn(c)
    \/ \E c \in Cyclers : BackoffDone(c)
    \/ \E c \in Cyclers : Lock(c)
    \/ \E c \in Cyclers : StorePtr(c)
    \/ \E c \in Cyclers : StoreLen(c)
    \/ \E c \in Cyclers : Unlock(c)
    \/ \E h \in Handlers : Request(h)
    \/ \E h \in Handlers : RLock(h)
    \/ \E h \in Handlers : LoadPtr(h)
    \/ \E h \in Handlers : LoadLen(h)
    \/ \E h \in Handlers : RUnlock(h)
    \/ \E h \in Handlers : LookupReturn(h)

Spec == Init /\ [][Next]_vars

\* one step of the cycle on slot c: a call returning, a sleep ending, the mutex
\* granted, a word stored
CycleStep(c) ==
    \/ RequestReturn(c) \/ SettleDone(c) \/ ProbeReturn(c) \/ BackoffDone(c)
    \/ Lock(c) \/ StorePtr(c) \/ StoreLen(c) \/ Unlock(c)

\* one step of the lookup on slot h up to its upstream call
LookupStep(h) == RLock(h) \/ LoadPtr(h) \/ LoadLen(h) \/ RUnlock(h)

\* Spec with every upstream call of a cycle returning, every sleep ending and
\* every runnable goroutine scheduled
FairSpec ==
    /\ Spec
    /\ \A c \in Cyclers : WF_vars(CycleStep(c))
    /\ \A h \in Handlers : WF_vars(LookupStep(h))

\* ------------------------------------------------------------ properties
\* the cycle on slot c has returned
Ended(c) == cycle[c].pc = "idle" /\ cycle[c].outcome \in {"success", "failure"}
\* the goroutine is between Lock and Unlock / between RLock and RUnlock
InWrite(c) == cycle[c].pc \in {"store", "storeLen", "unlock"}
InRead(h) == lookup[h].pc \in {"load", "loadLen", "runlock"}
\* the lookup has read the token
HasRead(h) == lookup[h].pc \in {"runlock", "call"} \/ lookup[h].calls > 0
\* the step is one of the goroutine on slot c / on slot h
StepOfCycle(c) == cycle'[c] # cycle[c] /\ cycle'[c].pc # cycle[c].pc
StepOfLookup(h) == lookup'[h] # lookup[h]

\* C1: a refresh cycle makes at most 5 attempts, and it ends in failure, with
\* no write to the store, exactly when 5 attempts failed (an attempt fails when
\* its issuance request or its probe returns an error).
C1_AtMostFiveFailureIffAllFail ==
    \A c \in Cyclers :
        /\ cycle[c].issued <= 5
        /\ cycle[c].failed <= cycle[c].issued
        /\ Ended(c) =>
             /\ (cycle[c].outcome = "failure") <=> (cycle[c].failed = 5)
             /\ (cycle[c].writes = 0) <=> (cycle[c].failed = 5)
             /\ cycle[c].outcome = "success" => cycle[c].failed = cycle[c].issued - 1

\* a cycle that failed by a mix of issuance failures and probe failures
C1_Witness ==
    \E c \in Cyclers :
        /\ Ended(c) /\ cycle[c].outcome = "failure"
        /\ cycle[c].issued = 5 /\ cycle[c].failed = 5
        /\ cycle[c].probes \in 1..4

\* C2: the stored token, word by word, is the empty initial value or a token
\* that an issuance returned and that then passed a probe made with the
\* configured test id; a token whose probe failed or was not made is not stored.
C2_StoreEmptyOrValidated ==
    /\ accessToken.ptr \in {Empty} \cup validated
    /\ accessToken.len \in {Empty} \cup validated
    /\ \A c \in Cyclers :
         cycle[c].pc \in {"lock", "store", "storeLen", "unlock"} =>
            /\ cycle[c].accessToken \in validated
            /\ cycle[c].probes = cycle[c].issuedOk

\* the store holds a validated token while another token was issued, probed
\* with failure and dropped
C2_Witness ==
    \E c \in Cyclers, t \in Tokens :
        /\ accessToken = Str(t)
        /\ Tokens \ validated # {}
        /\ Ended(c) /\ cycle[c].outcome = "success"
        /\ cycle[c].probes >= 2

\* C3: a cycle in which every attempt failed has written nothing, and the
\* store is as it was when the cycle began, but for what other cycles wrote.
C3_FailedCycleLeavesStore ==
    \A c \in Cyclers :
        cycle[c].outcome = "failure" =>
            /\ cycle[c].writes = 0
            /\ accessToken = cycle[c].base

\* a failed cycle (issuance and probe failures mixed) that began and ended
\* with a validated token in the store
C3_Witness ==
    \E c \in Cyclers, t \in Tokens :
        /\ cycle[c].outcome = "failure"
        /\ cycle[c].prior = "success"
        /\ cycle[c].probes \in 1..4
        /\ accessToken = Str(t)
        /\ cycle[c].base = Str(t)

\* C4: the token a lookup has read is whole, and is the initial empty value or
\* a value a completed write put in the store; while the lookup still holds the
\* read lock it is the store's value.
C4_NoTornRead ==
    \A h \in Handlers :
        /\ HasRead(h) =>
             /\ Whole(lookup[h].accessToken)
             /\ lookup[h].accessToken.ptr \in {Empty} \cup written
        /\ lookup[h].pc = "runlock" => lookup[h].accessToken = accessToken
        /\ lookup[h].pc = "loadLen" => lookup[h].accessToken.ptr = accessToken.ptr

\* a lookup has read the old value under the read lock while a cycle waits to
\* write a new one
C4_Witness ==
    \E h \in Handlers, c \in Cyclers :
        /\ lookup[h].pc = "runlock"
        /\ cycle[c].pc = "lock"
        /\ lookup[h].accessToken = Str(Empty)

\* C5: a writer between Lock and Unlock excludes every reader between RLock
\* and RUnlock and every other writer.
C5_WriterExcludesAll ==
    \A c \in Cyclers :
        InWrite(c) =>
            /\ rwWriter = c
            /\ \A h \in Handlers : ~InRead(h)
            /\ \A d \in Cyclers \ {c} : ~InWrite(d)

\* two readers are in their read sections at once
C5_Witness ==
    /\ \A h \in Handlers : InRead(h)
    /\ Cardinality(rwReaders) = 2

\* C6: no goroutine holds the credential lock while an upstream call of its own
\* or a sleep of its own is in progress; a cycle holds the write lock only from
\* Lock to Unlock, after issuance, settle delay and probe.
C6_NoLockAcrossCallOrSleep ==
    /\ \A c \in Cyclers :
         /\ (cycle[c].call # NoCall \/ cycle[c].sleeping > 0) => rwWriter # c
         /\ rwWriter = c =>
              /\ InWrite(c)
              /\ cycle[c].probes = cycle[c].issuedOk
              /\ cycle[c].probes >= 1
    /\ \A h \in Handlers :
         /\ lookup[h].call # NoCall => h \notin rwReaders
         /\ h \in rwReaders => InRead(h)

\* a lookup's upstream call is in flight while a cycle holds the write lock
C6_Witness ==
    \E h \in Handlers, c \in Cyclers :
        /\ lookup[h].call # NoCall
        /\ rwWriter = c

\* C7: the store changes only in a store step of a cycle holding the write
\* lock with a token whose probe succeeded; no step of a lookup changes it, and
\* no lookup sends an issuance request.
C7_OnlyValidatedWriteChangesStore ==
    /\ [](\A h \in Handlers : lookup[h].call.op \in {"none", "LookupStreamURL"})
    /\ [][/\ accessToken' # accessToken =>
               /\ lookup' = lookup
               /\ \E c \in Cyclers :
                    /\ StepOfCycle(c)
                    /\ cycle[c].pc \in {"store", "storeLen"}
                    /\ rwWriter = c
                    /\ cycle[c].accessToken \in validated
                    /\ cycle[c].call = NoCall
          /\ (\E h \in Handlers : StepOfLookup(h)) =>
               /\ accessToken' = accessToken
               /\ cycle' = cycle]_vars

\* lookups have ended with 500 and with 404 and the store holds a token
C7_Witness ==
    \E t \in Tokens, h \in Handlers :
        /\ accessToken = Str(t)
        /\ lookup[h].pc = "idle"
        /\ lookup[h].response.status = 500
        /\ lookup[h].accessToken = Str(t)

\* C8: the response follows from the upstream result: not-found gives 404 with
\* a text body and no stream URL, another error gives 500 with the generic
\* text, success gives 200 with streamUrl the URL returned.
C8_ResponseFromUpstreamResult ==
    \A h \in Handlers :
        (lookup[h].pc = "idle" /\ lookup[h].calls > 0) =>
            LET r == lookup[h].result
                resp == lookup[h].response
            IN  /\ r.err \in {ErrNotFound, ErrWrappedNotFound} =>
                     /\ resp.status = 404
                     /\ resp.kind = "text"
                     /\ resp.body = "Could not find the stream url for the gif."
                     /\ "streamUrl" \notin DOMAIN resp
                /\ r.err = ErrOther =>
                     /\ resp.status = 500
                     /\ resp.kind = "text"
                     /\ resp.body = "Something went wrong requesting the gif."
                     /\ "streamUrl" \notin DOMAIN resp
                /\ r.err = ErrNil =>
                     /\ resp.status = 200
                     /\ resp.kind = "json"
                     /\ resp.streamUrl = r.url
                     /\ r.url \in Urls

\* one lookup answered 404, another 200 with the second URL
C8_Witness ==
    \E g, h \in Handlers :
        /\ lookup[g].pc = "idle" /\ lookup[g].response.status = 404
        /\ lookup[h].pc = "idle" /\ lookup[h].response.status = 200
        /\ lookup[h].response.streamUrl = "u2"

\* C9: once an attempt's issuance and probe have succeeded the cycle sends no
\* further request and sleeps no more: it takes the lock, stores the token of
\* that attempt and returns; after the store the credential is that token; a
\* cycle that succeeds on attempt 1 has made 1 issuance and 1 probe.
C9_SuccessWritesAndEndsAtOnce ==
    /\ [](\A c \in Cyclers :
            /\ cycle[c].pc = "unlock" =>
                 /\ accessToken = Str(cycle[c].accessToken)
                 /\ cycle[c].accessToken \in Tokens
                 /\ cycle[c].writes = 1
            /\ cycle[c].pc \in {"lock", "store", "storeLen", "unlock"} =>
                 /\ cycle[c].call = NoCall
                 /\ cycle[c].sleeping = 0
            /\ (cycle[c].outcome = "success" /\ cycle[c].failed = 0) =>
                 /\ cycle[c].issued = 1
                 /\ cycle[c].probes = 1
                 /\ cycle[c].writes = 1)
    /\ [][\A c \in Cyclers :
            /\ cycle[c].pc = "lock" => cycle'[c].pc \in {"lock", "store"}
            /\ cycle[c].pc = "store" => cycle'[c].pc \in {"store", "storeLen"}
            /\ cycle[c].pc = "storeLen" => cycle'[c].pc \in {"storeLen", "unlock"}
            /\ cycle[c].pc = "unlock" =>
                 \/ cycle'[c] = cycle[c]
                 \/ /\ cycle'[c].pc = "idle"
                    /\ cycle'[c].outcome = "success"
                    /\ cycle'[c].issued = cycle[c].issued
                    /\ cycle'[c].probes = cycle[c].probes
                    /\ cycle'[c].call = NoCall
                    /\ cycle'[c].sleeping = 0]_vars

\* the store was empty, attempt 1 succeeded, and the store holds its token
C9_Witness ==
    \E c \in Cyclers :
        /\ Ended(c) /\ cycle[c].outcome = "success"
        /\ cycle[c].issued = 1 /\ cycle[c].probes = 1
        /\ cycle[c].base = Str(Empty)
        /\ accessToken = Str("t2")
        /\ written = {"t2"}

\* C10: whatever the outcome of earlier cycles, a tick can fire while cron runs
\* (a goroutine slot and the run's budget allowing), and the cycle it starts
\* is at the first backoff stage with its first issuance request sent and no
\* attempt failed.
C10_TickIndependentOfOutcome ==
    /\ []((/\ cronRunning
           /\ ticks + requests < MaxGoroutines
           /\ \E c \in Cyclers : cycle[c].pc = "idle")
          => ENABLED (\E c \in Cyclers : Tick(c)))
    /\ [][\A c \in Cyclers :
            (cycle[c].pc = "idle" /\ cycle'[c].pc # "idle") =>
                /\ ticks' = ticks + 1
                /\ cycle'[c].pc = "request"
                /\ cycle'[c].i = 1
                /\ backoff[cycle'[c].i] = 5
                /\ cycle'[c].issued = 1
                /\ cycle'[c].failed = 0
                /\ cycle'[c].probes = 0
                /\ cycle'[c].writes = 0
                /\ cycle'[c].prior = cycle[c].outcome]_vars

\* after a cycle that failed 5 attempts, a new cycle ran and used 5 attempts too
C10_Witness ==
    \E c \in Cyclers :
        /\ cycle[c].prior = "failure"
        /\ ticks = 2
        /\ cycle[c].issued = 5
        /\ cycle[c].failed = 5

\* C11: with every upstream call returning, every cycle that has started
\* returns; it has then sent at most 5 issuance requests and 5 probes, and a
\* cycle whose 5 issuance requests all failed has returned by running out of
\* the loop, its index never past the backoff array, with the store untouched.
C11_CycleTerminates ==
    /\ [](\A c \in Cyclers :
            /\ cycle[c].issued <= 5
            /\ cycle[c].probes <= 5
            /\ cycle[c].pc \in {"request", "settle", "probe", "backoff"} =>
                 cycle[c].i \in 1..5
            /\ (Ended(c) /\ cycle[c].issued = 5 /\ cycle[c].issuedOk = 0) =>
                 /\ cycle[c].outcome = "failure"
                 /\ cycle[c].probes = 0
                 /\ cycle[c].writes = 0
                 /\ accessToken = cycle[c].base)
    /\ \A c \in Cyclers : (cycle[c].pc # "idle") ~> Ended(c)

\* a cycle has returned after 5 failed issuance requests and no probe
C11_Witness ==
    \E c \in Cyclers :
        /\ Ended(c)
        /\ cycle[c].issued = 5 /\ cycle[c].issuedOk = 0 /\ cycle[c].probes = 0
        /\ cycle[c].outcome = "failure"

\* a required field of the configuration is empty
SomeFieldEmpty(cfg) == \E f \in DOMAIN cfg : cfg[f] = Empty

\* C12: validateConfig returns an error exactly when one of the five required
\* fields is empty; when loading or validating fails main panics with cron not
\* started, the client not set up and nothing served, and main goes past
\* validation only with a configuration that has no empty field.
C12_ConfigValidatedBeforeServing ==
    /\ (validateConfig(tempConfig) # <<>>) <=> SomeFieldEmpty(tempConfig)
    /\ DOMAIN tempConfig = {"ListenPort", "RedGifsClientId", "RedGifsClientSecret",
                            "RedGifsTestId", "StellarClientUserAgent"}
    /\ mainPc = "panicked" =>
         /\ SomeFieldEmpty(tempConfig)
         /\ ~cronRunning
         /\ client = "zero"
         /\ ticks = 0 /\ requests = 0
         /\ \A c \in Cyclers : cycle[c] = IdleCycle
         /\ \A h \in Handlers : lookup[h] = IdleLookup
    /\ (cronRunning \/ ticks > 0 \/ requests > 0 \/ mainPc = "serving") =>
         /\ ~SomeFieldEmpty(config)
         /\ config = tempConfig
         /\ mainPc \in {"setupRedGifsWrapperClient", "serving"}

\* main has panicked on a configuration whose only empty field is the client
\* user agent
C12_Witness ==
    /\ mainPc = "panicked"
    /\ tempConfig.StellarClientUserAgent = Empty
    /\ Len(validateConfig(tempConfig)) = 1
    /\ tempConfig.ListenPort # Empty

\* the schedule as the claim gives it, in seconds
StageDelays == <<5, 10, 30, 60, 120>>

\* C13: the sleep after the failure of attempt i lasts the i-th delay of
\* 5, 10, 30, 60, 120 s, whether issuance or probe failed; the next issuance
\* request is sent only by the step that ends that sleep; a cycle never has a
\* call in flight while it sleeps, and never a second call while one is in flight.
C13_BackoffSchedule ==
    /\ [](\A c \in Cyclers :
            /\ cycle[c].pc = "backoff" =>
                 /\ cycle[c].i \in 1..5
                 /\ cycle[c].failed = cycle[c].i
                 /\ cycle[c].sleeping = StageDelays[cycle[c].i]
            /\ cycle[c].sleeping > 0 => cycle[c].call = NoCall
            /\ cycle[c].call # NoCall <=> cycle[c].pc \in {"request", "probe"})
    /\ [][\A c \in Cyclers :
            /\ (cycle'[c].issued = cycle[c].issued + 1 /\ cycle[c].issued >= 1) =>
                 /\ cycle[c].pc = "backoff"
                 /\ cycle[c].sleeping = StageDelays[cycle[c].issued]
                 /\ cycle[c].call = NoCall
                 /\ cycle'[c].sleeping = 0
                 /\ cycle'[c].i = cycle[c].i + 1
            /\ (cycle[c].call # NoCall /\ cycle'[c].call # NoCall) =>
                 cycle'[c].call = cycle[c].call
            /\ (cycle[c].pc \in {"request", "probe"} /\ cycle'[c].pc = "backoff") =>
                 cycle'[c].sleeping = StageDelays[cycle[c].i]]_vars

\* one cycle sleeps 120 s after attempt 5 failed at its probe while another
\* sleeps 10 s after attempt 2 failed at issuance
C13_Witness ==
    \E c, d \in Cyclers :
        /\ cycle[c].pc = "backoff"
        /\ cycle[c].i = 5
        /\ cycle[c].issuedOk = 5 /\ cycle[c].probes = 5
        /\ cycle[c].sleeping = 120
        /\ cycle[d].pc = "backoff"
        /\ cycle[d].i = 2
        /\ cycle[d].issuedOk = 0
        /\ cycle[d].sleeping = 10

\* C14: a probe is sent only by the step that ends the 5 s settle sleep, which
\* follows a successful issuance of the same attempt; a failed issuance leads
\* to the backoff sleep without a probe; so probes never exceed successful
\* issuances.
C14_ProbeOnlyAfterIssuanceAndSettle ==
    /\ [](\A c \in Cyclers :
            /\ cycle[c].probes <= cycle[c].issuedOk
            /\ cycle[c].issuedOk <= cycle[c].issued
            /\ cycle[c].issuedOk + cycle[c].failed >= cycle[c].probes
            /\ cycle[c].pc = "settle" =>
                 /\ cycle[c].sleeping = 5
                 /\ cycle[c].accessToken \in Tokens
                 /\ cycle[c].issuedOk = cycle[c].probes + 1
            /\ cycle[c].pc = "probe" => cycle[c].probes = cycle[c].issuedOk)
    /\ [][\A c \in Cyclers :
            /\ (cycle'[c].probes = cycle[c].probes + 1) =>
                 /\ cycle[c].pc = "settle"
                 /\ cycle[c].sleeping = 5
                 /\ cycle[c].accessToken \in Tokens
                 /\ cycle'[c].pc = "probe"
                 /\ cycle'[c].call.op = "LookupStreamURL"
                 /\ cycle'[c].i = cycle[c].i
            /\ (cycle[c].pc = "request" /\ cycle'[c].pc # "request") =>
                 \/ /\ cycle'[c].pc = "settle"
                    /\ cycle'[c].issuedOk = cycle[c].issuedOk + 1
                    /\ cycle'[c].probes = cycle[c].probes
                 \/ /\ cycle'[c].pc = "backoff"
                    /\ cycle'[c].issuedOk = cycle[c].issuedOk
                    /\ cycle'[c].failed = cycle[c].failed + 1
                    /\ cycle'[c].probes = cycle[c].probes]_vars

\* a cycle has returned after 5 attempts of which 3 failed at issuance and 2
\* at the probe
C14_Witness ==
    \E c \in Cyclers :
        /\ Ended(c)
        /\ cycle[c].issued = 5
        /\ cycle[c].issuedOk = 2
        /\ cycle[c].probes = 2
        /\ cycle[c].failed = 5

\* C15: a probe in flight carries the token the issuance of the same attempt
\* returned, the configured test id and the server's agent string; the token
\* the cycle then stores is the one the probe carried.
C15_ProbeAndWriteUseAttemptToken ==
    /\ [](\A c \in Cyclers :
            /\ cycle[c].pc = "probe" =>
                 /\ cycle[c].call.op = "LookupStreamURL"
                 /\ cycle[c].call.token = cycle[c].accessToken
                 /\ cycle[c].call.token \in Tokens
                 /\ cycle[c].call.id = config.RedGifsTestId
                 /\ cycle[c].call.id = "testgif"
                 /\ cycle[c].call.agent = "app.stellarreddit.RedGifsServer"
                 /\ cycle[c].call.ip \in Ips
            /\ cycle[c].pc = "storeLen" => accessToken.ptr = cycle[c].accessToken
            /\ cycle[c].pc = "unlock" => accessToken = Str(cycle[c].accessToken))
    /\ [][\A c \in Cyclers :
            \* the token held through settle and probe is the one issued
            /\ (cycle[c].pc = "request" /\ cycle'[c].pc = "settle") =>
                 cycle'[c].accessToken \in Tokens
            /\ (cycle[c].pc = "settle" /\ cycle'[c].pc = "probe") =>
                 /\ cycle'[c].accessToken = cycle[c].accessToken
                 /\ cycle'[c].call.token = cycle[c].accessToken
            \* the token taken to the store is the one the probe carried
            /\ (cycle[c].pc = "probe" /\ cycle'[c].pc = "lock") =>
                 cycle'[c].accessToken = cycle[c].call.token
            /\ (cycle[c].pc \in {"lock", "store", "storeLen"}
                  /\ cycle'[c].pc \in {"store", "storeLen", "unlock"}) =>
                 cycle'[c].accessToken = cycle[c].accessToken
            \* a token whose probe failed does not outlive its attempt
            /\ cycle'[c].pc = "backoff" => cycle'[c].accessToken = Empty]_vars

\* the second attempt's token is in the store after the first attempt's probe
\* failed
C15_Witness ==
    \E c \in Cyclers :
        /\ cycle[c].pc = "unlock"
        /\ cycle[c].i = 2
        /\ cycle[c].probes = 2
        /\ cycle[c].accessToken = "t2"
        /\ accessToken = Str("t2")
        /\ validated = {"t2"}

\* C16: a lookup sends one upstream call, carrying the whole token it loaded
\* under the read lock, the client's address, the configured client agent and
\* the id asked for; it sends no second call whatever the first returns; a
\* store completed while the call is in flight leaves the call's token as it was.
C16_OneCallWithTokenRead ==
    /\ [](\A h \in Handlers :
            /\ lookup[h].calls <= 1
            /\ lookup[h].pc = "call" =>
                 /\ lookup[h].calls = 1
                 /\ lookup[h].call.op = "LookupStreamURL"
                 /\ lookup[h].call.token = lookup[h].accessToken
                 /\ Whole(lookup[h].call.token)
                 /\ lookup[h].call.id = lookup[h].gifId
                 /\ lookup[h].call.agent = config.StellarClientUserAgent
            /\ lookup[h].response # NoResponse =>
                 /\ lookup[h].pc = "idle"
                 /\ lookup[h].calls = 1)
    /\ [][\A h \in Handlers :
            /\ lookup[h].pc = "call" =>
                 /\ lookup'[h].accessToken = lookup[h].accessToken
                 /\ \/ lookup'[h] = lookup[h]
                    \/ /\ lookup'[h].pc = "idle"
                       /\ lookup'[h].call = NoCall
                       /\ lookup'[h].calls = 1
                       /\ lookup'[h].response # NoResponse
            /\ (lookup[h].pc = "runlock" /\ lookup'[h].pc = "call") =>
                 /\ lookup'[h].call.token = lookup[h].accessToken
                 /\ lookup[h].accessToken = accessToken
            /\ (lookup[h].pc = "idle" /\ lookup[h].calls = 1) =>
                 \/ lookup'[h] = lookup[h]
                 \/ lookup'[h].pc = "rlock" /\ lookup'[h].calls = 0]_vars

\* a lookup's call carrying the empty token is in flight after a cycle has
\* completed a store
C16_Witness ==
    \E h \in Handlers, c \in Cyclers :
        /\ lookup[h].pc = "call"
        /\ lookup[h].call.token = Str(Empty)
        /\ Ended(c) /\ cycle[c].outcome = "success"
        /\ accessToken = Str("t1")

\* C17: every upstream call of a refresh cycle is made on the client that
\* setupRedGifsWrapperClient assigned, and a cycle runs only once main has
\* assigned it.  (main starts cron before it assigns the client, so a tick
\* that falls between the two statements runs the cycle on the zero client.)
C17_CycleAfterClientAssigned ==
    \A c \in Cyclers :
        /\ cycle[c].call # NoCall => cycle[c].call.client = "ready"
        /\ cycle[c].pc # "idle" => client = "ready"

\* C18: a cycle completes at most one store; also when cycles overlap, once no
\* cycle is between Lock and Unlock the store is whole and is the token of the
\* cycle whose store completed last (a validated token), or, if no store has
\* completed, the initial value; cycles that all failed leave it as it was.
C18_OverlappingCyclesLastWriteWins ==
    /\ [](/\ \A c \in Cyclers : cycle[c].writes <= 1
          /\ (\A c \in Cyclers : ~InWrite(c)) =>
               /\ Whole(accessToken)
               /\ accessToken = Str(lastWrite)
               /\ lastWrite \in {Empty} \cup validated
               /\ (lastWrite = Empty) <=> (written = {})
          /\ (\A c \in Cyclers : Ended(c) /\ cycle[c].outcome = "failure") =>
               \A c \in Cyclers : accessToken = cycle[c].base)
    /\ [][/\ \A c \in Cyclers :
               (cycle'[c].writes = cycle[c].writes + 1) =>
                   /\ lastWrite' = cycle[c].accessToken
                   /\ accessToken' = Str(cycle[c].accessToken)
                   /\ cycle[c].accessToken \in validated
                   /\ cycle'[c].writes = 1
          /\ lastWrite' # lastWrite =>
               \E c \in Cyclers : cycle'[c].writes = cycle[c].writes + 1]_vars

\* two overlapping cycles have both stored and returned; the store holds the
\* token stored last
C18_Witness ==
    /\ ticks = 2
    /\ \A c \in Cyclers :
         Ended(c) /\ cycle[c].outcome = "success" /\ cycle[c].prior = "none"
    /\ written = {"t1", "t2"}
    /\ lastWrite = "t1"
    /\ accessToken = Str("t1")

\* C19: startup runs no cycle: before the first tick no cycle has started and no
\* issuance request has been made, and no step of main starts one; until a cycle
\* has completed its store the credential store is empty, and every lookup that
\* has read it holds, and passes to the upstream, the empty token.
C19_NoCycleAtStartEmptyUntilFirstSuccess ==
    /\ [](/\ ticks = 0 => \A c \in Cyclers : cycle[c] = IdleCycle
          /\ \A c \in Cyclers : cycle[c].issued > 0 => ticks > 0
          /\ written = {} =>
               /\ accessToken.len = Empty
               /\ (\A c \in Cyclers : cycle[c].pc # "storeLen") => accessToken = Str(Empty)
               /\ \A h \in Handlers :
                    /\ HasRead(h) => lookup[h].accessToken = Str(Empty)
                    /\ lookup[h].call # NoCall => lookup[h].call.token = Str(Empty))
    /\ [][mainPc' # mainPc => cycle' = cycle /\ accessToken' = accessToken]_vars

\* the first tick's cycle is at its probe and has stored nothing; a lookup's call
\* to the upstream is in flight with the empty token
C19_Witness ==
    /\ ticks = 1
    /\ written = {}
    /\ \E c \in Cyclers : cycle[c].pc = "probe"
    /\ \E h \in Handlers :
         /\ lookup[h].pc = "call"
         /\ lookup[h].call.token = Str(Empty)
         /\ lookup[h].calls = 1

====
